---- MODULE Spec2Model ----
(***************************************************************************)
(* Model of the syncflix signaling server (src/server.js): the Room Table  *)
(* `rooms`, the Session Index `userSessions`, the per-connection handlers  *)
(* registered by wss.on('connection') and the periodic clean-up timer.     *)
(*                                                                         *)
(* Node runs every handler to completion, so each handler is one action.   *)
(* A connection object (the `ws` of one transport) is named by its arrival *)
(* number; a room object (the `{host, viewers}` literal of line 98) is     *)
(* named by the connection whose join created it, because the message      *)
(* handlers keep the object captured at line 104 while the close handler   *)
(* looks the room id up again at line 298.                                 *)
(*                                                                         *)
(* Time is counted in ticks of 30 minutes, the window of lines 605 and     *)
(* 615.  Only the difference now - connectedAt is ever read, so a session  *)
(* stores that difference (`elapsed`), saturated at StaleWindow, in place  *)
(* of the two timestamps.  The timer of line 595 may fire between any two  *)
(* handlers.                                                               *)
(***************************************************************************)
EXTENDS Integers, Sequences, FiniteSets, TLC

\* ------------------------------------------------------------------ bounds
MaxConns == 3

\* --------------------------------------------------------- program constants
Null == 0
StaleWindow == 1
CloseRoomIdRequired == 4001
CloseHostExists == 4002

Conns == 1..MaxConns
UserIds == 1..MaxConns
RoomIds == {"r1", "r2"}
\* url.searchParams.get() of an absent parameter is null; null and the empty
\* string are both falsy and are both written "" here.
Absent == ""
RoomParams == RoomIds \cup {Absent}
RoleParams == {"host", "viewer", Absent}
\* The username parameter of the c-th transport.  The server only stores and
\* copies the name, so one value per transport is enough: every other
\* transport sends none and gets the default of line 70.
UsernameParam(c) == IF c % 2 = 1 THEN Absent ELSE "bea"

VARIABLES
  rooms,         \* Map roomId -> room object (named by its creator)
  roomObj,       \* heap of room objects: [host, viewers: Map userId -> ws]
  userSessions,  \* Map userId -> session record
  ws,            \* the connection objects and the fields lines 107-111 attach
  sent,          \* envelopes written by the handler that ran last, in order
  ev             \* the handler that ran last

vars == <<rooms, roomObj, userSessions, ws, sent, ev>>

\* ---------------------------------------------------------------- helpers
EmptyMap == [k \in {} |-> Null]

MapSet(m, k, v) == [x \in (DOMAIN m) \cup {k} |-> IF x = k THEN v ELSE m[x]]

MapDelete(m, k) == [x \in (DOMAIN m) \ {k} |-> m[x]]

MapValues(m) == {m[k] : k \in DOMAIN m}

Min(S) == CHOOSE x \in S : \A y \in S : x <= y

RECURSIVE InOrder(_)
\* Map.forEach visits entries in insertion order; a connection is inserted
\* by its own join, and connections are numbered by arrival.
InOrder(S) == IF S = {} THEN <<>> ELSE <<Min(S)>> \o InOrder(S \ {Min(S)})

OrDefault(v, d) == IF v = Absent THEN d ELSE v

IsOpen(c) == ws[c].readyState = "OPEN"

Envelope(to, type, body) == [to |-> to, type |-> type, body |-> body]

NoBody == [none |-> TRUE]

\* A loop that stops after the first viewer.
BroadcastFirstOnly(targets, type, body) ==
  IF targets = <<>> THEN <<>>
  ELSE IF IsOpen(Head(targets)) THEN <<Envelope(Head(targets), type, body)>>
       ELSE <<>>

RECURSIVE Broadcast(_, _, _)
\* room.viewers.forEach(viewerWs => { if (OPEN) viewerWs.send(...) })
Broadcast(targets, type, body) ==
  IF targets = <<>> THEN <<>>
  ELSE (IF IsOpen(Head(targets)) THEN <<Envelope(Head(targets), type, body)>> ELSE <<>>)
       \o Broadcast(Tail(targets), type, body)

\* The handler that ran last: its kind, the connection it ran for, the
\* roomId and isHost of that connection's closure (lines 69-72) and, for a
\* rejected connection, the close code used.
HandlerEvent(kind, c, code, roomId, isHost) ==
  [kind |-> kind, conn |-> c, code |-> code, room |-> roomId, host |-> isHost]

Event(kind, c) == HandlerEvent(kind, c, 0, Absent, FALSE)

NewWs == [readyState |-> "NEW", userId |-> Null, roomId |-> Absent,
          username |-> Absent, role |-> Absent, isHost |-> FALSE, room |-> Null]

EmptyRoom == [host |-> Null, viewers |-> EmptyMap]

\* The transport whose 'connection' event is delivered next.
IsNextConn(c) ==
  /\ ws[c].readyState = "NEW"
  /\ \A d \in Conns : d < c => ws[d].readyState # "NEW"

\* A connection whose handlers are registered and whose 'close' has not run.
Registered(c) == ws[c].readyState \in {"OPEN", "CLOSING"}

\* A room object is garbage once the Room Table has dropped it and no
\* connection with live handlers holds it (line 104); garbage is reset.
Collect(heap, table, conns) ==
  [o \in Conns |->
     IF \/ o \in MapValues(table)
        \/ \E c \in Conns : /\ conns[c].readyState \in {"OPEN", "CLOSING"}
                             /\ conns[c].room = o
     THEN heap[o] ELSE EmptyRoom]

\* ------------------------------------------------------------------- Init
Init ==
  /\ rooms = EmptyMap
  /\ roomObj = [c \in Conns |-> EmptyRoom]
  /\ userSessions = EmptyMap
  /\ ws = [c \in Conns |-> NewWs]
  /\ sent = <<>>
  /\ ev = Event("init", Null)

\* ------------------------------------------------- wss.on('connection')
\* A rejection that runs after the session has been recorded.
RejectRoomIdRegisters(c, roomId, isHost) ==
  /\ sent' = <<>>
  /\ ev' = HandlerEvent("reject", c, CloseRoomIdRequired, roomId, isHost)
  /\ userSessions' = MapSet(userSessions, c,
                        [ws |-> c, roomId |-> roomId, username |-> "Anonymous",
                         role |-> "viewer", isHost |-> isHost, elapsed |-> 0])
  /\ UNCHANGED <<rooms, roomObj, ws>>

\* Lines 75-79.  A rejected transport returns before any handler is
\* registered and nothing keeps its object: ws[c] stays NEW and the next
\* arrival takes the number.
RejectRoomId(c, roomId, isHost) ==
  /\ sent' = <<>>
  /\ ev' = HandlerEvent("reject", c, CloseRoomIdRequired, roomId, isHost)
  /\ UNCHANGED <<rooms, roomObj, userSessions, ws>>

RejectHostExists(c, roomId, isHost) ==
  /\ sent' = <<Envelope(c, "error", [code |-> "HOST_EXISTS"])>>
  /\ ev' = HandlerEvent("reject", c, CloseHostExists, roomId, isHost)
  /\ UNCHANGED <<rooms, roomObj, userSessions, ws>>

\* Admission that counts only a host whose transport is OPEN.
HostExistsLiveOnly(roomId) ==
  /\ roomId \in DOMAIN rooms
  /\ roomObj[rooms[roomId]].host # Null
  /\ IsOpen(roomObj[rooms[roomId]].host)

\* Line 82.
HostExists(roomId) ==
  /\ roomId \in DOMAIN rooms
  /\ roomObj[rooms[roomId]].host # Null

\* A welcome that always reports the default role.
WelcomeDefaultRole(c, userId, username, roomId, role, isHost) ==
  <<Envelope(c, "welcome",
      [userId |-> userId, username |-> username, room |-> roomId,
       role |-> "viewer", isHost |-> isHost])>>

\* Lines 155-165.
Welcome(c, userId, username, roomId, role, isHost) ==
  <<Envelope(c, "welcome",
      [userId |-> userId, username |-> username, room |-> roomId,
       role |-> role, isHost |-> isHost])>>

\* A viewers-list that names only the viewers whose transport is OPEN.
ViewersListOpenOnly(c, isHost, room, conns) ==
  IF isHost /\ Cardinality(DOMAIN room.viewers) > 0
  THEN <<Envelope(c, "viewers-list",
           [viewers |-> {conns[v].userId :
                           v \in {x \in MapValues(room.viewers) :
                                    conns[x].readyState = "OPEN"}}])>>
  ELSE <<>>

\* Lines 167-179; conns are the connection objects as line 111 leaves them.
ViewersList(c, isHost, room, conns) ==
  IF isHost /\ Cardinality(DOMAIN room.viewers) > 0
  THEN <<Envelope(c, "viewers-list",
           [viewers |-> {conns[v].userId : v \in MapValues(room.viewers)}])>>
  ELSE <<>>

\* A registration that rebuilds the Room Table around its own room.
RegisterAloneInTable(c, roomId, username, role, isHost, userId) ==
  LET o == IF roomId \in DOMAIN rooms THEN rooms[roomId] ELSE c
      room == IF roomId \in DOMAIN rooms THEN roomObj[o] ELSE EmptyRoom
      room2 == IF isHost THEN [room EXCEPT !.host = c]
               ELSE [room EXCEPT !.viewers = MapSet(room.viewers, userId, c)]
      ws2 == [ws EXCEPT ![c] = [readyState |-> "OPEN", userId |-> userId,
                                roomId |-> roomId, username |-> username,
                                role |-> role, isHost |-> isHost, room |-> o]]
      viewerWs == InOrder(MapValues(room2.viewers))
      notify ==
        IF isHost
        THEN Broadcast(viewerWs, "host-joined",
                       [hostId |-> userId, hostName |-> username])
        ELSE IF room2.host # Null /\ IsOpen(room2.host)
             THEN <<Envelope(c, "host-info",
                      [hostId |-> ws[room2.host].userId,
                       hostName |-> ws[room2.host].username])>>
             ELSE <<>>
      welcome == Welcome(c, userId, username, roomId, role, isHost)
      viewersList == ViewersList(c, isHost, room2, ws2)
  IN /\ rooms' = MapSet(EmptyMap, roomId, o)
     /\ roomObj' = [roomObj EXCEPT ![o] = room2]
     /\ ws' = ws2
     /\ userSessions' = MapSet(userSessions, userId,
                          [ws |-> c, roomId |-> roomId, username |-> username,
                           role |-> role, isHost |-> isHost, elapsed |-> 0])
     /\ sent' = notify \o welcome \o viewersList
     /\ ev' = HandlerEvent("join", c, 0, roomId, isHost)

Register(c, roomId, username, role, isHost, userId) ==
  LET o == IF roomId \in DOMAIN rooms THEN rooms[roomId] ELSE c
      room == IF roomId \in DOMAIN rooms THEN roomObj[o] ELSE EmptyRoom
      room2 == IF isHost THEN [room EXCEPT !.host = c]
               ELSE [room EXCEPT !.viewers = MapSet(room.viewers, userId, c)]
      ws2 == [ws EXCEPT ![c] = [readyState |-> "OPEN", userId |-> userId,
                                roomId |-> roomId, username |-> username,
                                role |-> role, isHost |-> isHost, room |-> o]]
      viewerWs == InOrder(MapValues(room2.viewers))
      notify ==
        IF isHost
        THEN Broadcast(viewerWs, "host-joined",
                       [hostId |-> userId, hostName |-> username])
        ELSE IF room2.host # Null /\ IsOpen(room2.host)
             THEN <<Envelope(c, "host-info",
                      [hostId |-> ws[room2.host].userId,
                       hostName |-> ws[room2.host].username])>>
             ELSE <<>>
      welcome == Welcome(c, userId, username, roomId, role, isHost)
      viewersList == ViewersList(c, isHost, room2, ws2)
  IN /\ rooms' = MapSet(rooms, roomId, o)
     /\ roomObj' = [roomObj EXCEPT ![o] = room2]
     /\ ws' = ws2
     /\ userSessions' = MapSet(userSessions, userId,
                          [ws |-> c, roomId |-> roomId, username |-> username,
                           role |-> role, isHost |-> isHost, elapsed |-> 0])
     /\ sent' = notify \o welcome \o viewersList
     /\ ev' = HandlerEvent("join", c, 0, roomId, isHost)

Connection(c, roomParam, usernameParam, roleParam, userId) ==
  /\ ws[c].readyState = "NEW"
  /\ LET roomId == roomParam
         username == OrDefault(usernameParam, "Anonymous")
         role == OrDefault(roleParam, "viewer")
         isHost == (role = "host")
     IN IF roomId = Absent THEN RejectRoomId(c, roomId, isHost)
        ELSE IF isHost /\ HostExists(roomId) THEN RejectHostExists(c, roomId, isHost)
        ELSE Register(c, roomId, username, role, isHost, userId)

\* The result of generateUserId() for connection c.  Math.random draws from
\* 36^7 strings; the drawn string is named by the connection that drew it.
generateUserId(c) == c

\* ------------------------------------------------------ ws.on('close')
\* A leave that forgets to clear the host slot.
LeaveKeepsHost(room, isHost, userId) ==
  IF isHost THEN room
  ELSE [room EXCEPT !.viewers = MapDelete(room.viewers, userId)]

\* Lines 301-303 and 315-317: the departing connection leaves the room that
\* the Room Table holds under its room id.
Leave(room, isHost, userId) ==
  IF isHost THEN [room EXCEPT !.host = Null]
  ELSE [room EXCEPT !.viewers = MapDelete(room.viewers, userId)]

\* Notices in which viewer-left also goes to the remaining viewers.
CloseNoticesToAll(room, isHost, userId, conns) ==
  LET open(d) == conns[d].readyState = "OPEN"
      viewerWs == InOrder({v \in MapValues(room.viewers) : open(v)})
  IN IF isHost
     THEN [i \in 1..Len(viewerWs) |-> Envelope(viewerWs[i], "host-left", NoBody)]
     ELSE (IF room.host # Null /\ open(room.host)
           THEN <<Envelope(room.host, "viewer-left", [viewerId |-> userId])>>
           ELSE <<>>)
          \o [i \in 1..Len(viewerWs) |->
               Envelope(viewerWs[i], "viewer-left", [viewerId |-> userId])]

\* Lines 306-314 and 320-327: host-left to the viewers, viewer-left to the
\* host, each only to a transport that is OPEN.
CloseNotices(room, isHost, userId, conns) ==
  LET open(d) == conns[d].readyState = "OPEN"
      viewerWs == InOrder({v \in MapValues(room.viewers) : open(v)})
  IN IF isHost
     THEN [i \in 1..Len(viewerWs) |-> Envelope(viewerWs[i], "host-left", NoBody)]
     ELSE IF room.host # Null /\ open(room.host)
          THEN <<Envelope(room.host, "viewer-left", [viewerId |-> userId])>>
          ELSE <<>>

\* An emptiness test that looks at the viewers only.
RoomIsEmptyNoViewers(room) == Cardinality(DOMAIN room.viewers) = 0

\* Line 331.
RoomIsEmpty(room) == room.host = Null /\ Cardinality(DOMAIN room.viewers) = 0

\* The connection object once 'close' has been emitted: readyState is CLOSED.
Closed(conn) == [conn EXCEPT !.readyState = "CLOSED"]

\* After the one 'close' event of a connection its handlers never run again,
\* so the closure values of lines 69-72 are dead; what a room object can
\* still read through a reference to the connection is readyState, userId and
\* username.
ClosedForGood(conn) ==
  [NewWs EXCEPT !.readyState = "CLOSED", !.userId = conn.userId,
                !.username = conn.username]

\* A handler that, finding no room under its room id, falls back on the room
\* object captured at line 104 and notifies its members.
MissingRoomUsesCaptured(c, conns) ==
  /\ sent' = CloseNotices(Leave(roomObj[ws[c].room], ws[c].isHost, ws[c].userId),
                          ws[c].isHost, ws[c].userId, conns)
  /\ roomObj' = Collect(roomObj, rooms, conns)
  /\ UNCHANGED rooms

\* Lines 298-299: the Room Table has no room under the room id, the handler
\* returns.  conns are the connection objects as the handler leaves them.
MissingRoom(c, conns) ==
  /\ sent' = <<>>
  /\ roomObj' = Collect(roomObj, rooms, conns)
  /\ UNCHANGED rooms

\* closedWs is the connection object the handler leaves behind.
CloseHandler(c, closedWs) ==
  LET userId == ws[c].userId
      roomId == ws[c].roomId
      isHost == ws[c].isHost
      ws2 == [ws EXCEPT ![c] = closedWs]
  IN /\ ws' = ws2
     /\ userSessions' = MapDelete(userSessions, userId)
     /\ IF roomId \notin DOMAIN rooms
        THEN MissingRoom(c, ws2)
        ELSE LET o == rooms[roomId]
                 room2 == Leave(roomObj[o], isHost, userId)
                 rooms2 == IF RoomIsEmpty(room2) THEN MapDelete(rooms, roomId)
                           ELSE rooms
             IN /\ roomObj' = Collect([roomObj EXCEPT ![o] = room2], rooms2, ws2)
                /\ sent' = CloseNotices(room2, isHost, userId, ws2)
                /\ rooms' = rooms2

Close(c) ==
  /\ Registered(c)
  /\ CloseHandler(c, ClosedForGood(ws[c]))
  /\ ev' = HandlerEvent("close", c, 0, ws[c].roomId, ws[c].isHost)

\* The peer goes away or starts the closing handshake: readyState leaves OPEN
\* before the 'close' event is delivered.
TransportClosing(c) ==
  /\ ws[c].readyState = "OPEN"
  /\ ws' = [ws EXCEPT ![c].readyState = "CLOSING"]
  /\ sent' = <<>>
  /\ ev' = Event("closing", c)
  /\ UNCHANGED <<rooms, roomObj, userSessions>>

\* ---------------------------------------------------- ws.on('message')
\* An inbound frame is text that JSON.parse rejects, or an object with a type
\* and, where the sender supplied them, a target and a payload: the sdp of an
\* offer or an answer, the candidate of an ice-candidate.  A missing target
\* is Null and a missing payload is Absent, both falsy.
RelayTypes == {"offer", "answer", "ice-candidate"}

\* The case labels of lines 202-254.
CaseTypes == {"screen-sharing-started", "screen-sharing-stopped",
              "request-screen", "ping", "get-room-info"}

\* Types the switch has no case for: "screen-request", which the server
\* itself sends at line 237, a type no part of the system uses, and an
\* object without a type.
UnknownTypes == {"screen-request", "chat", Absent}

PlainTypes == CaseTypes \cup UnknownTypes

Targets == UserIds \cup {Null}

Payloads == {Absent, "v=0 a", "v=0 b"}

Unparseable == [parses |-> FALSE, type |-> Absent, target |-> Null,
                payload |-> Absent]

RelayFrames ==
  [parses : {TRUE}, type : RelayTypes, target : Targets, payload : Payloads]

PlainFrames ==
  [parses : {TRUE}, type : PlainTypes, target : {Null}, payload : {Absent}]

Messages == {Unparseable} \cup RelayFrames \cup PlainFrames

\* A lookup of the target in the Session Index, whatever its room.
RelayTargetAnyRoom(target, sender, room) ==
  IF target \in DOMAIN userSessions THEN userSessions[target].ws ELSE Null

\* A lookup that lets a viewer name another viewer of the room as well.
RelayTargetAnyMember(target, sender, room) ==
  IF target \in DOMAIN room.viewers THEN room.viewers[target]
  ELSE IF room.host # Null /\ ws[room.host].userId = target THEN room.host
       ELSE Null

\* Lines 352-362, 387-397 and 421-431: a host names a viewer of the room by
\* its id, a viewer can only name the host of the room.
RelayTarget(target, sender, room) ==
  IF ws[sender].isHost
  THEN IF target \in DOMAIN room.viewers THEN room.viewers[target] ELSE Null
  ELSE IF room.host # Null /\ ws[room.host].userId = target THEN room.host
       ELSE Null

\* A delivery that does not look at the state of the transport.
ForwardAnyState(targetWs, type, body) ==
  IF targetWs # Null THEN <<Envelope(targetWs, type, body)>> ELSE <<>>

\* Lines 364-375, 399-409 and 433-443.
Forward(targetWs, type, body) ==
  IF targetWs # Null /\ IsOpen(targetWs) THEN <<Envelope(targetWs, type, body)>>
  ELSE <<>>

\* An offer handler that forwards a description of its own.
handleOfferFixedSdp(data, sender, room) ==
  IF data.target = Null \/ data.payload = Absent THEN <<>>
  ELSE Forward(RelayTarget(data.target, sender, room), "offer",
               [sender |-> ws[sender].userId,
                senderName |-> ws[sender].username,
                sdp |-> "v=0 a"])

handleOffer(data, sender, room) ==
  IF data.target = Null \/ data.payload = Absent THEN <<>>
  ELSE Forward(RelayTarget(data.target, sender, room), "offer",
               [sender |-> ws[sender].userId,
                senderName |-> ws[sender].username,
                sdp |-> data.payload])

\* An answer handler without the field check of lines 382-385.
handleAnswerUnchecked(data, sender, room) ==
  Forward(RelayTarget(data.target, sender, room), "answer",
          [sender |-> ws[sender].userId, sdp |-> data.payload])

handleAnswer(data, sender, room) ==
  IF data.target = Null \/ data.payload = Absent THEN <<>>
  ELSE Forward(RelayTarget(data.target, sender, room), "answer",
               [sender |-> ws[sender].userId, sdp |-> data.payload])

\* A candidate handler that delivers each candidate twice.
handleIceCandidateTwice(data, sender, room) ==
  IF data.target = Null \/ data.payload = Absent THEN <<>>
  ELSE LET once == Forward(RelayTarget(data.target, sender, room), "ice-candidate",
                     [sender |-> ws[sender].userId, candidate |-> data.payload])
       IN once \o once

handleIceCandidate(data, sender, room) ==
  IF data.target = Null \/ data.payload = Absent THEN <<>>
  ELSE Forward(RelayTarget(data.target, sender, room), "ice-candidate",
               [sender |-> ws[sender].userId, candidate |-> data.payload])

\* A pong that goes to every open connection.
PongToAll(c) ==
  Broadcast(InOrder({d \in Conns : IsOpen(d)}), "pong", NoBody)

\* Lines 246-251.
Pong(c) == <<Envelope(c, "pong", NoBody)>>

\* A default case that only logs.
UnknownTypeSilent(c, type) == <<>>

\* Lines 271-277.
UnknownTypeError(c, type) ==
  <<Envelope(c, "error", [message |-> "Unknown message type", type |-> type])>>

\* A null host of the room-info reply.
NoOne == [id |-> Null, name |-> Absent]

Identity(c) == [id |-> ws[c].userId, name |-> ws[c].username]

\* Lines 255-268; room is the object captured at line 104.
RoomInfo(roomId, room) ==
  LET viewerWs == InOrder(MapValues(room.viewers))
  IN [room |-> roomId,
      host |-> IF room.host # Null THEN Identity(room.host) ELSE NoOne,
      viewers |-> [i \in 1..Len(viewerWs) |-> Identity(viewerWs[i])],
      viewerCount |-> Cardinality(DOMAIN room.viewers)]

\* What the handler of lines 182-289 writes for the frame `data` received on
\* connection c.  userId, username, isHost and roomId are the closure values
\* of lines 69-94, which lines 107-111 also store on the connection.
OnMessage(c, data) ==
  LET room == roomObj[ws[c].room]
      isHost == ws[c].isHost
      userId == ws[c].userId
      username == ws[c].username
      viewerWs == InOrder(MapValues(room.viewers))
  IN IF ~data.parses
     THEN <<Envelope(c, "error", [message |-> "Invalid JSON message"])>>
     ELSE CASE data.type = "offer" -> handleOffer(data, c, room)
            [] data.type = "answer" -> handleAnswer(data, c, room)
            [] data.type = "ice-candidate" -> handleIceCandidate(data, c, room)
            [] data.type = "screen-sharing-started" ->
                 IF isHost
                 THEN Broadcast(viewerWs, "screen-sharing-started",
                                [hostId |-> userId, hostName |-> username])
                 ELSE <<>>
            [] data.type = "screen-sharing-stopped" ->
                 IF isHost
                 THEN Broadcast(viewerWs, "screen-sharing-stopped",
                                [hostId |-> userId])
                 ELSE <<>>
            [] data.type = "request-screen" ->
                 IF ~isHost /\ room.host # Null /\ IsOpen(room.host)
                 THEN <<Envelope(room.host, "screen-request",
                          [viewerId |-> userId, viewerName |-> username])>>
                 ELSE <<>>
            [] data.type = "ping" -> Pong(c)
            [] data.type = "get-room-info" ->
                 <<Envelope(c, "room-info", RoomInfo(ws[c].roomId, room))>>
            [] OTHER -> UnknownTypeError(c, data.type)

\* A frame is delivered to the handler only while the transport is OPEN.
Message(c, data) ==
  /\ ws[c].readyState = "OPEN"
  /\ sent' = OnMessage(c, data)
  /\ ev' = HandlerEvent("message", c, 0, ws[c].roomId, ws[c].isHost)
  /\ UNCHANGED <<rooms, roomObj, userSessions, ws>>

\* ------------------------------------------------- setInterval clean-up
SessionFresh(c) ==
  /\ ws[c].userId \in DOMAIN userSessions
  /\ userSessions[ws[c].userId].elapsed < StaleWindow

\* A test that counts every fresh session, whatever its transport.
hasActiveConnectionsAnyState(room) ==
  \/ room.host # Null /\ SessionFresh(room.host)
  \/ \E v \in MapValues(room.viewers) : SessionFresh(v)

hasActiveConnections(room) ==
  \/ /\ room.host # Null
     /\ IsOpen(room.host)
     /\ SessionFresh(room.host)
  \/ \E v \in MapValues(room.viewers) : IsOpen(v) /\ SessionFresh(v)

Reaper ==
  /\ rooms' = [r \in {x \in DOMAIN rooms : hasActiveConnections(roomObj[rooms[x]])}
                 |-> rooms[r]]
  /\ roomObj' = Collect(roomObj, rooms', ws)
  /\ sent' = <<>>
  /\ ev' = Event("sweep", Null)
  /\ UNCHANGED <<userSessions, ws>>

\* Date.now() advances by one tick.
Tick ==
  /\ userSessions' = [u \in DOMAIN userSessions |->
        [userSessions[u] EXCEPT
           !.elapsed = IF @ < StaleWindow THEN @ + 1 ELSE StaleWindow]]
  /\ sent' = <<>>
  /\ ev' = Event("tick", Null)
  /\ UNCHANGED <<rooms, roomObj, ws>>

\* ------------------------------------------------------------------- Next
\* The next transport arrives with the query parameters of lines 68-71.
Connect ==
  \E c \in Conns, roomParam \in RoomParams, roleParam \in RoleParams :
    /\ IsNextConn(c)
    /\ Connection(c, roomParam, UsernameParam(c), roleParam, generateUserId(c))

\* The handlers that write the Room Table, the Session Index or a connection.
Next ==
  \/ Connect
  \/ \E c \in Conns : Close(c)
  \/ \E c \in Conns : TransportClosing(c)
  \/ Reaper
  \/ Tick

Spec == Init /\ [][Next]_vars

\* Line 634: setInterval runs the sweep every five minutes for as long as the
\* process lives, so a sweep that would change something is not put off
\* for ever.
SpecFair == Init /\ [][Next]_vars /\ WF_vars(Reaper)

\* A message handler that drops the session of the sender.
ReceiveForgetsSender ==
  \E c \in Conns :
    /\ ws[c].readyState = "OPEN"
    /\ \E out \in {OnMessage(c, data) : data \in Messages} :
         /\ sent' = out
         /\ ev' = HandlerEvent("message", c, 0, ws[c].roomId, ws[c].isHost)
         /\ userSessions' = MapDelete(userSessions, ws[c].userId)
         /\ UNCHANGED <<rooms, roomObj, ws>>

\* The server with its message handler.  A frame may arrive on any OPEN
\* connection between any two other handlers.  The handler of lines 182-289
\* and the functions of lines 344-444 assign to none of rooms, userSessions,
\* a room object or a connection, so the membership part of a behaviour of
\* SpecRouter is a behaviour of Spec.
\* Frames that make the handler write the same envelopes give the same step,
\* so the step is taken once for each distinct output: Receive is
\* \E c \in Conns, data \in Messages : Message(c, data).
Receive ==
  \E c \in Conns :
    /\ ws[c].readyState = "OPEN"
    /\ \E out \in {OnMessage(c, data) : data \in Messages} :
         /\ sent' = out
         /\ ev' = HandlerEvent("message", c, 0, ws[c].roomId, ws[c].isHost)
         /\ UNCHANGED <<rooms, roomObj, userSessions, ws>>

NextRouter == Next \/ Receive

SpecRouter == Init /\ [][NextRouter]_vars

\* A transport that delivers 'close' twice: the first run leaves the closure
\* values in place, and the handler is entered a second time with them.
CloseOnce(c) ==
  /\ Registered(c)
  /\ CloseHandler(c, Closed(ws[c]))
  /\ ev' = HandlerEvent("close", c, 0, ws[c].roomId, ws[c].isHost)

CloseAgain(c) ==
  /\ ws[c].readyState = "CLOSED"
  /\ CloseHandler(c, Closed(ws[c]))
  /\ ev' = HandlerEvent("close-again", c, 0, ws[c].roomId, ws[c].isHost)

NextReclose ==
  \/ Connect
  \/ \E c \in Conns : CloseOnce(c)
  \/ \E c \in Conns : CloseAgain(c)
  \/ \E c \in Conns : TransportClosing(c)
  \/ Reaper
  \/ Tick

SpecReclose == Init /\ [][NextReclose]_vars

\* ------------------------------------------ generateUserId (any draw)
\* Lines 23-26 and 72: the id is seven base-36 digits of Math.random() and
\* is compared with no id in use, so a draw may return any id, one that a
\* registered connection carries included.
ConnectAnyId ==
  \E c \in Conns, roomParam \in RoomParams, roleParam \in RoleParams,
     userId \in UserIds :
    /\ IsNextConn(c)
    /\ Connection(c, roomParam, UsernameParam(c), roleParam, userId)

NextAnyId ==
  \/ ConnectAnyId
  \/ \E c \in Conns : Close(c)
  \/ \E c \in Conns : TransportClosing(c)
  \/ Reaper
  \/ Tick

SpecAnyId == Init /\ [][NextAnyId]_vars

\* ------------------------------------------- role parameter (any value)
\* Line 71 takes whatever the query string carries: a role that is neither
\* "host" nor "viewer" is as possible as the two the clients send.
AnyRoleParams == RoleParams \cup {"admin"}

ConnectAnyRole ==
  \E c \in Conns, roomParam \in RoomParams, roleParam \in AnyRoleParams :
    /\ IsNextConn(c)
    /\ Connection(c, roomParam, UsernameParam(c), roleParam, generateUserId(c))

NextAnyRole ==
  \/ ConnectAnyRole
  \/ \E c \in Conns : Close(c)
  \/ \E c \in Conns : TransportClosing(c)
  \/ Reaper
  \/ Tick

SpecAnyRole == Init /\ [][NextAnyRole]_vars

\* ------------------------------ host-failover variant (unnamed/part_004)
\* The variant keeps the same tables with other contents: rooms maps a room
\* id to the Set of its connections, visited in insertion order, which is
\* the order of arrival; a session holds roomId, username and isHost; a
\* connection carries userId, roomId, username and isHost.  It has no room
\* objects and no sweep, and its message handler assigns to none of these.
HostParams == {"true", Absent}

\* Lines 460-470: every client of the room but senderWs whose transport is
\* OPEN, in the order of the Set.
broadcastToRoom(roomId, senderWs, type, body) ==
  IF roomId \notin DOMAIN rooms THEN <<>>
  ELSE Broadcast(InOrder(rooms[roomId] \ {senderWs}), type, body)

\* Lines 491-504, over the clients members of a room and the connection
\* objects conns.
getUsersInRoom(members, conns) ==
  [i \in 1..Len(members) |->
     [id |-> conns[members[i]].userId, username |-> conns[members[i]].username,
      isHost |-> conns[members[i]].isHost]]

\* Lines 214-289.
FailoverConnection(c, roomParam, usernameParam, hostParam, userId) ==
  /\ ws[c].readyState = "NEW"
  /\ LET roomId == roomParam
         username == OrDefault(usernameParam, "Anonymous")
         isHost == (hostParam = "true")
         clients == IF roomId \in DOMAIN rooms THEN rooms[roomId] ELSE {}
         ws2 == [ws EXCEPT ![c] = [NewWs EXCEPT !.readyState = "OPEN",
                                                !.userId = userId,
                                                !.roomId = roomId,
                                                !.username = username,
                                                !.isHost = isHost]]
         existingUsers == getUsersInRoom(InOrder({d \in clients : ws[d].userId # userId}), ws2)
     IN IF roomId = Absent THEN RejectRoomId(c, roomId, isHost)
        ELSE /\ rooms' = MapSet(rooms, roomId, clients \cup {c})
             /\ ws' = ws2
             /\ userSessions' = MapSet(userSessions, userId,
                                  [roomId |-> roomId, username |-> username,
                                   isHost |-> isHost])
             /\ sent' = <<Envelope(c, "welcome",
                            [userId |-> userId, username |-> username,
                             room |-> roomId, isHost |-> isHost])>>
                        \o (IF existingUsers # <<>>
                            THEN <<Envelope(c, "existing-users",
                                     [users |-> existingUsers])>>
                            ELSE <<>>)
                        \o Broadcast(InOrder(clients \ {c}), "user-joined",
                                     [userId |-> userId, username |-> username,
                                      isHost |-> isHost])
             /\ ev' = HandlerEvent("join", c, 0, roomId, isHost)
             /\ UNCHANGED roomObj

FailoverConnect ==
  \E c \in Conns, roomParam \in RoomParams, hostParam \in HostParams :
    /\ IsNextConn(c)
    /\ FailoverConnection(c, roomParam, UsernameParam(c), hostParam,
                          generateUserId(c))

\* Lines 413-451.  roomId, userId and username are the closure's, isHost is
\* read from the connection, where a promotion may have set it.
FailoverClose(c) ==
  /\ Registered(c)
  /\ LET roomId == ws[c].roomId
         userId == ws[c].userId
         sessions == MapDelete(userSessions, userId)
         closed == [ws EXCEPT ![c] = ClosedForGood(ws[c])]
     IN /\ ev' = HandlerEvent("close", c, 0, roomId, ws[c].isHost)
        /\ UNCHANGED roomObj
        /\ IF roomId \notin DOMAIN rooms
           THEN /\ userSessions' = sessions
                /\ ws' = closed
                /\ sent' = <<>>
                /\ UNCHANGED rooms
           ELSE LET remaining == rooms[roomId] \ {c}
                    remainingUsers == InOrder(remaining)
                    userLeft == Broadcast(remainingUsers, "user-left",
                                  [userId |-> userId, username |-> ws[c].username])
                    promote == ws[c].isHost /\ remainingUsers # <<>>
                    newHost == remainingUsers[1]
                IN /\ rooms' = IF remaining = {} THEN MapDelete(rooms, roomId)
                                ELSE MapSet(rooms, roomId, remaining)
                   /\ ws' = IF promote
                            THEN [closed EXCEPT ![newHost].isHost = TRUE]
                            ELSE closed
                   /\ userSessions' =
                        IF promote
                        THEN [sessions EXCEPT ![ws[newHost].userId].isHost = TRUE]
                        ELSE sessions
                   /\ sent' = userLeft \o
                        (IF promote
                         THEN Broadcast(remainingUsers, "host-changed",
                                [newHostId |-> ws[newHost].userId,
                                 previousHostId |-> userId])
                         ELSE <<>>)

NextFailover ==
  \/ FailoverConnect
  \/ \E c \in Conns : FailoverClose(c)
  \/ \E c \in Conns : TransportClosing(c)

SpecFailover == Init /\ [][NextFailover]_vars

\* ------------------------------------------------- getRoomInfo (lookup)
getRoomInfo(roomId) ==
  IF roomId \notin DOMAIN rooms THEN Null
  ELSE LET room == roomObj[rooms[roomId]]
       IN [roomId |-> roomId,
           host |-> IF room.host # Null THEN ws[room.host].userId ELSE Null,
           viewers |-> {ws[v].userId : v \in MapValues(room.viewers)},
           viewerCount |-> Cardinality(DOMAIN room.viewers)]

\* ------------------------------------------------------------ vocabulary
\* The room object that holds connection c: the one its join put it in, which
\* is the one its message handler reads (line 104).
HeldIn(c) == roomObj[ws[c].room]

\* The payload of a relayed envelope: sdp of an offer or an answer, candidate
\* of an ice-candidate.
PayloadOf(env) ==
  IF env.type = "ice-candidate" THEN env.body.candidate ELSE env.body.sdp

\* The room the Room Table holds under room id r (r must be a key).
RoomOf(r) == roomObj[rooms[r]]

HostSlotOccupied(r) == r \in DOMAIN rooms /\ RoomOf(r).host # Null

LiveHost(r) == HostSlotOccupied(r) /\ ws[RoomOf(r).host].readyState = "OPEN"

\* The connections in the host slot or viewer set of a room.
Members(room) == (IF room.host = Null THEN {} ELSE {room.host})
                 \cup MapValues(room.viewers)

\* The room ids under which the Room Table holds user id u as a member.
MemberRooms(u) ==
  {r \in DOMAIN rooms :
     \/ RoomOf(r).host # Null /\ ws[RoomOf(r).host].userId = u
     \/ u \in DOMAIN RoomOf(r).viewers}

ConnectAttempt(e) == e.kind \in {"join", "reject"}

HostAttempt(e) == ConnectAttempt(e) /\ e.host /\ e.room # Absent

RECURSIVE CountTo(_, _, _)
\* How many envelopes of the given type the sequence delivers to connection c.
CountTo(envs, c, type) ==
  IF envs = <<>> THEN 0
  ELSE (IF Head(envs).to = c /\ Head(envs).type = type THEN 1 ELSE 0)
       + CountTo(Tail(envs), c, type)

\* ------------------------------------------------------------------ C1
\* C1: for each room id, at most one connection registered in the Session
\* Index holds the Host role for that room.
C1_HostUnique ==
  \A u1, u2 \in DOMAIN userSessions :
    (/\ userSessions[u1].isHost
     /\ userSessions[u2].isHost
     /\ userSessions[u1].roomId = userSessions[u2].roomId) => u1 = u2

\* ------------------------------------------------------------------ C2
\* C2: a room id is a key of the Room Table if and only if some connection
\* registered in the Session Index has that room id.
C2_RoomIffMember ==
  \A r \in RoomIds :
    (r \in DOMAIN rooms) <=> (\E u \in DOMAIN userSessions : userSessions[u].roomId = r)

\* ------------------------------------------------------------------ C3
\* C3: a connection id in the Session Index is a member (host slot or viewer
\* set) of exactly the room recorded in its session; an id outside the
\* Session Index is a member of no room.
C3_MembershipConsistent ==
  \A u \in UserIds :
    IF u \in DOMAIN userSessions
    THEN MemberRooms(u) = {userSessions[u].roomId}
    ELSE MemberRooms(u) = {}

\* ------------------------------------------------------------------ C4
\* C4: a host request for a room whose host slot is occupied is rejected with
\* close code 4002; the Room Table and the Session Index are as before and
\* the existing host still holds the slot.
C4_HostExistsRejection ==
  [][\A r \in RoomIds :
       (HostAttempt(ev') /\ ev'.room = r /\ HostSlotOccupied(r)) =>
         /\ ev'.kind = "reject"
         /\ ev'.code = CloseHostExists
         /\ rooms' = rooms
         /\ roomObj' = roomObj
         /\ userSessions' = userSessions
         /\ RoomOf(r)'.host = RoomOf(r).host]_vars

\* A host request was just rejected with 4002 while the host, still in the
\* Session Index, keeps the slot.
C4_Witness ==
  /\ ev.kind = "reject"
  /\ ev.code = CloseHostExists
  /\ HostSlotOccupied(ev.room)
  /\ ws[RoomOf(ev.room).host].userId \in DOMAIN userSessions

\* ------------------------------------------------------------------ C5
\* C5: of two host requests for the same room, the later one is rejected with
\* host-exists as long as the earlier one is still registered as that room's
\* host in the Session Index.
C5_SecondHostRejected ==
  [][(/\ HostAttempt(ev')
      /\ \E u \in DOMAIN userSessions :
           userSessions[u].isHost /\ userSessions[u].roomId = ev'.room) =>
       (ev'.kind = "reject" /\ ev'.code = CloseHostExists)]_vars

\* ------------------------------------------------------------------ C6
\* C6: a host request is rejected only when the room has a live host (host
\* slot occupied by a connection whose transport is OPEN); without a live host
\* it succeeds, the room exists afterwards and the newcomer holds the slot.
C6_RejectedOnlyIfLiveHost ==
  [][\A r \in RoomIds :
       (HostAttempt(ev') /\ ev'.room = r) =>
         /\ (ev'.kind = "reject" => LiveHost(r))
         /\ (~LiveHost(r) =>
               /\ ev'.kind = "join"
               /\ r \in DOMAIN rooms'
               /\ RoomOf(r)'.host = ev'.conn)]_vars

\* ------------------------------------------------------------------ C7
\* C7: after the close handler of a registered connection C, C's id is not in
\* the Session Index, C is neither the host nor a viewer of the room the Room
\* Table holds under its room id, a room that is kept has a member, and a room
\* that was removed has none.
C7_DisconnectRemoves ==
  [][\A c \in Conns, r \in RoomIds :
       (ev'.kind = "close" /\ ev'.conn = c /\ ws[c].roomId = r) =>
         /\ ws[c].userId \notin DOMAIN userSessions'
         /\ r \in DOMAIN rooms' =>
              /\ RoomOf(r)'.host # c
              /\ ws[c].userId \notin DOMAIN RoomOf(r)'.viewers
              /\ c \notin MapValues(RoomOf(r)'.viewers)
              /\ Members(RoomOf(r))' # {}
         /\ (r \in DOMAIN rooms /\ r \notin DOMAIN rooms') =>
              \A o \in Conns : o = rooms[r] => Members(roomObj[o])' = {}]_vars

\* A disconnect was just processed and the room is kept for those who remain.
C7_Witness ==
  /\ ev.kind = "close"
  /\ ws[ev.conn].userId \notin DOMAIN userSessions
  /\ ev.room \in DOMAIN rooms
  /\ ev.conn \notin Members(RoomOf(ev.room))
  /\ Members(RoomOf(ev.room)) # {}

\* ------------------------------------------------------------------ C8
\* C8: a second run of the close handler for the same connection changes no
\* membership and sends no notification.
C8_SecondCloseIsNoOp ==
  [][ev'.kind = "close-again" =>
       /\ rooms' = rooms
       /\ roomObj' = roomObj
       /\ userSessions' = userSessions
       /\ sent' = <<>>]_vars

\* ------------------------------------------------------------------ C9
\* C9: when the connection in a room's host slot disconnects while viewers
\* remain, each viewer with an OPEN transport gets exactly one host-left and
\* nothing else is sent, the room stays with the same viewer set and an empty
\* host slot; when the only member of a room disconnects, the room is absent
\* from lookups.
C9_HostLeftTeardown ==
  [][\A c \in Conns, r \in RoomIds :
       (ev'.kind = "close" /\ ev'.conn = c /\ ws[c].roomId = r) =>
         /\ (/\ r \in DOMAIN rooms
             /\ RoomOf(r).host = c
             /\ DOMAIN RoomOf(r).viewers # {}) =>
              /\ r \in DOMAIN rooms'
              /\ rooms'[r] = rooms[r]
              /\ RoomOf(r)'.viewers = RoomOf(r).viewers
              /\ RoomOf(r)'.host = Null
              /\ \A v \in MapValues(RoomOf(r).viewers) :
                   CountTo(sent, v, "host-left")'
                     = IF ws'[v].readyState = "OPEN" THEN 1 ELSE 0
              /\ \A i \in 1..Len(sent') :
                   /\ sent'[i].type = "host-left"
                   /\ sent'[i].to \in MapValues(RoomOf(r).viewers)
         /\ (r \in DOMAIN rooms /\ Members(RoomOf(r)) = {c}) =>
              /\ r \notin DOMAIN rooms'
              /\ getRoomInfo(r)' = Null]_vars

\* The host just left a room in which an OPEN viewer remains and was told.
C9_Witness ==
  /\ ev.kind = "close"
  /\ ev.host
  /\ ev.room \in DOMAIN rooms
  /\ RoomOf(ev.room).host = Null
  /\ \E v \in MapValues(RoomOf(ev.room).viewers) :
       /\ ws[v].readyState = "OPEN"
       /\ CountTo(sent, v, "host-left") = 1

\* ------------------------------------------------------------------ C10
\* C10: when a viewer of a room with a live host disconnects, the only
\* envelope sent is one viewer-left, to the host, carrying the viewer's id.
C10_ViewerLeftToHostOnly ==
  [][\A c \in Conns, r \in RoomIds :
       (/\ ev'.kind = "close" /\ ev'.conn = c /\ ws[c].roomId = r
        /\ r \in DOMAIN rooms
        /\ ws[c].userId \in DOMAIN RoomOf(r).viewers
        /\ RoomOf(r).viewers[ws[c].userId] = c
        /\ LiveHost(r)) =>
         sent' = <<Envelope(RoomOf(r).host, "viewer-left",
                            [viewerId |-> ws[c].userId])>>]_vars

\* A viewer just left a room that has a live host and another OPEN viewer;
\* the host was told and the other viewer was not.
C10_Witness ==
  /\ ev.kind = "close"
  /\ ~ev.host
  /\ LiveHost(ev.room)
  /\ \E v \in MapValues(RoomOf(ev.room).viewers) : ws[v].readyState = "OPEN"
  /\ sent = <<Envelope(RoomOf(ev.room).host, "viewer-left",
                       [viewerId |-> ws[ev.conn].userId])>>

\* The envelopes of the given type that the sequence delivers to connection c.
Delivered(envs, c, type) ==
  {i \in 1..Len(envs) : envs[i].to = c /\ envs[i].type = type}

\* ------------------------------------------------------------------ C11
\* C11: when a viewer joins a room that has a live host, the viewer receives
\* host-info carrying the host's id and the host receives viewer-joined
\* carrying the new viewer's id.
C11_ViewerJoinNotices ==
  [][\A c \in Conns, r \in RoomIds :
       (/\ ev'.kind = "join" /\ ev'.conn = c /\ ev'.room = r /\ ~ev'.host
        /\ LiveHost(r)) =>
         /\ \E i \in Delivered(sent', c, "host-info") :
              sent'[i].body.hostId = ws[RoomOf(r).host].userId
         /\ \E i \in Delivered(sent', RoomOf(r).host, "viewer-joined") :
              sent'[i].body.viewerId = ws'[c].userId]_vars

\* ------------------------------------------------------------------ C12
\* C12: when a host joins a room that already contains viewers, the new host
\* receives one viewers-list naming exactly the viewers of that room, each of
\* them registered as a viewer with that room id, and every one of those
\* viewers whose transport is open receives one host-joined carrying the new
\* host's id; a viewer whose transport is not open receives none.
C12_HostJoinNotices ==
  [][\A c \in Conns, r \in RoomIds :
       (/\ ev'.kind = "join" /\ ev'.conn = c /\ ev'.room = r /\ ev'.host
        /\ r \in DOMAIN rooms
        /\ DOMAIN RoomOf(r).viewers # {}) =>
         /\ Cardinality(Delivered(sent', c, "viewers-list")) = 1
         /\ \A i \in Delivered(sent', c, "viewers-list") :
              /\ sent'[i].body.viewers = DOMAIN RoomOf(r).viewers
              /\ \A u \in sent'[i].body.viewers :
                   /\ u \in DOMAIN userSessions
                   /\ userSessions[u].roomId = r
                   /\ ~userSessions[u].isHost
         /\ \A v \in MapValues(RoomOf(r).viewers) :
              /\ Cardinality(Delivered(sent', v, "host-joined")) =
                   (IF IsOpen(v) THEN 1 ELSE 0)
              /\ \A i \in Delivered(sent', v, "host-joined") :
                   sent'[i].body.hostId = ws'[c].userId]_vars

\* A host has just joined a room that holds an open viewer and a viewer
\* whose transport is no longer open.
C12_Witness ==
  /\ ev.kind = "join" /\ ev.host
  /\ \E v, w \in MapValues(RoomOf(ev.room).viewers) :
       /\ ws[v].readyState = "OPEN" /\ ws[w].readyState = "CLOSING"
       /\ Delivered(sent, v, "host-joined") # {}
       /\ Delivered(sent, w, "host-joined") = {}
  /\ Delivered(sent, ev.conn, "viewers-list") # {}

\* ------------------------------------------------------------------ C13
\* C13: every successful join delivers exactly one welcome to the joining
\* connection, carrying the id under which the Session Index registers that
\* connection, its room id and its role; a rejected connection receives no
\* welcome, and a welcome goes to nobody but a connection that has just
\* joined.
C13_WelcomeOnJoin ==
  [][/\ \A c \in Conns :
          (ev'.kind = "join" /\ ev'.conn = c) =>
            /\ Cardinality(Delivered(sent', c, "welcome")) = 1
            /\ \A i \in Delivered(sent', c, "welcome") :
                 LET b == sent'[i].body
                 IN /\ b.userId \in DOMAIN userSessions'
                    /\ userSessions'[b.userId].ws = c
                    /\ b.room = ev'.room
                    /\ b.room = userSessions'[b.userId].roomId
                    /\ b.role = userSessions'[b.userId].role
                    /\ (b.role = "host") <=> ev'.host
     /\ \A i \in 1..Len(sent') :
          sent'[i].type = "welcome" =>
            ev'.kind = "join" /\ sent'[i].to = ev'.conn]_vars

\* A host has just joined and holds its welcome, and its request would have
\* been rejected had it come second.
C13_Witness ==
  /\ ev.kind = "join" /\ ev.host
  /\ \E i \in Delivered(sent, ev.conn, "welcome") :
       /\ sent[i].body.role = "host"
       /\ sent[i].body.userId \in DOMAIN userSessions
       /\ userSessions[sent[i].body.userId].ws = ev.conn
  /\ HostExists(ev.room)

\* ------------------------------------------------------------------ C14
\* C14: an offer sent by the host of a room with target V and sdp S, where V
\* is a viewer of that room whose transport is open, is delivered to V with
\* sender equal to the host's id and sdp equal to S, and to no one else.
C14_HostOfferDelivered ==
  [][ev'.kind = "message" =>
       \A c \in Conns :
         (/\ ev'.conn = c
          /\ ws[c].roomId \in DOMAIN rooms
          /\ RoomOf(ws[c].roomId).host = c) =>
           \A target \in DOMAIN RoomOf(ws[c].roomId).viewers,
              sdp \in Payloads \ {Absent} :
             LET data == [parses |-> TRUE, type |-> "offer",
                          target |-> target, payload |-> sdp]
                 viewer == RoomOf(ws[c].roomId).viewers[target]
             IN (IsOpen(viewer) /\ Message(c, data)) =>
                  /\ Len(sent') = 1
                  /\ sent'[1].to = viewer
                  /\ sent'[1].type = "offer"
                  /\ sent'[1].body.sender = ws[c].userId
                  /\ sent'[1].body.sdp = sdp]_vars

\* The host of a room with two open viewers has sent an offer, and one of the
\* two holds it.
C14_Witness ==
  /\ ev.kind = "message" /\ ev.host
  /\ ev.room \in DOMAIN rooms /\ RoomOf(ev.room).host = ev.conn
  /\ Len(sent) = 1 /\ sent[1].type = "offer"
  /\ sent[1].body.sender = ws[ev.conn].userId
  /\ \E v, w \in MapValues(RoomOf(ev.room).viewers) :
       v # w /\ IsOpen(v) /\ IsOpen(w) /\ sent[1].to = v

\* ------------------------------------------------------------------ C15
\* C15: an offer, answer or ice-candidate sent by a viewer is delivered to
\* nobody but the host of the room that holds the viewer, and only when the
\* target equals that host's id; the delivered envelope has the same type,
\* sender equal to the viewer's id and the payload unchanged.  It is
\* delivered when that host's transport is open and target and payload are
\* present, and never to a viewer, whatever the target.  While the viewer is
\* in the viewer set the Room Table holds for its room id, that host is the
\* host the Room Table holds.
C15_ViewerRelayToHostOnly ==
  [][ev'.kind = "message" =>
       \A c \in Conns :
         (ev'.conn = c /\ ~ws[c].isHost) =>
           \A data \in RelayFrames :
             LET host == HeldIn(c).host
                 due == /\ host # Null /\ IsOpen(host)
                        /\ data.target = ws[host].userId
                        /\ data.payload # Absent
             IN \/ /\ Len(sent') = (IF due THEN 1 ELSE 0)
                   /\ \A i \in 1..Len(sent') :
                        /\ sent'[i].to = host
                        /\ ws[sent'[i].to].isHost
                        /\ sent'[i].type = data.type
                        /\ sent'[i].body.sender = ws[c].userId
                        /\ PayloadOf(sent'[i]) = data.payload
                        /\ (/\ ws[c].roomId \in DOMAIN rooms
                            /\ ws[c].userId
                                 \in DOMAIN RoomOf(ws[c].roomId).viewers)
                             => sent'[i].to = RoomOf(ws[c].roomId).host
                \/ ~Message(c, data)]_vars

\* A viewer of a room with an open host and a second open viewer has sent an
\* answer, and the host holds it.
C15_Witness ==
  /\ ev.kind = "message" /\ ~ev.host
  /\ Len(sent) = 1 /\ sent[1].type = "answer"
  /\ sent[1].to = HeldIn(ev.conn).host
  /\ sent[1].body.sender = ws[ev.conn].userId
  /\ \E w \in MapValues(HeldIn(ev.conn).viewers) : w # ev.conn /\ IsOpen(w)

\* ------------------------------------------------------------------ C16
\* C16: an offer, answer or ice-candidate whose target id has no session
\* with the sender's room id, or is not a member of the room that holds the
\* sender, or names a connection whose transport is not open, produces no
\* outbound message, not even an error reply to the sender, and changes
\* neither table nor any connection.
C16_RoutingMissDropped ==
  [][ev'.kind = "message" =>
       \A c \in Conns :
         ev'.conn = c =>
           \A data \in RelayFrames :
             LET registered == /\ data.target \in DOMAIN userSessions
                               /\ userSessions[data.target].roomId = ws[c].roomId
                 member == \E d \in Members(HeldIn(c)) :
                             ws[d].userId = data.target
                 open == \E d \in Conns :
                           ws[d].userId = data.target /\ IsOpen(d)
             IN ((~registered \/ ~member \/ ~open) /\ Message(c, data)) =>
                  /\ sent' = <<>>
                  /\ UNCHANGED <<rooms, roomObj, userSessions, ws>>]_vars

\* A host has sent a frame that reached nobody while a viewer of its room,
\* still a member and still registered, has a transport that is not open.
C16_Witness ==
  /\ ev.kind = "message" /\ ev.host /\ sent = <<>>
  /\ \E u \in DOMAIN HeldIn(ev.conn).viewers :
       /\ ws[HeldIn(ev.conn).viewers[u]].readyState = "CLOSING"
       /\ u \in DOMAIN userSessions

\* A frame that is not a well-formed envelope: text that does not parse, or
\* an offer, answer or ice-candidate without its target or its payload.
Malformed(data) ==
  \/ ~data.parses
  \/ /\ data.type \in RelayTypes
     /\ (data.target = Null \/ data.payload = Absent)

\* ------------------------------------------------------------------ C17
\* C17: a malformed inbound envelope is dropped.  It is delivered to no
\* other connection (a relay frame lacking a field produces nothing at all,
\* unparseable text produces one error reply to its sender), the Room Table,
\* the Session Index, the rooms and the connections are unchanged, and the
\* sender stays registered with an open transport.
C17_MalformedDropped ==
  [][ev'.kind = "message" =>
       \A c \in Conns :
         ev'.conn = c =>
           \A data \in {m \in Messages : Malformed(m)} :
             Message(c, data) =>
               /\ \A i \in 1..Len(sent') : sent'[i].to = c
               /\ sent' = IF data.parses THEN <<>>
                          ELSE <<Envelope(c, "error",
                                   [message |-> "Invalid JSON message"])>>
               /\ UNCHANGED <<rooms, roomObj, userSessions, ws>>
               /\ ws'[c].readyState = "OPEN"
               /\ ws'[c].userId \in DOMAIN userSessions'
               /\ userSessions'[ws'[c].userId].ws = c]_vars

\* A connection with an open peer in its room has sent text that does not
\* parse and holds the error reply.
C17_Witness ==
  /\ ev.kind = "message"
  /\ sent = <<Envelope(ev.conn, "error", [message |-> "Invalid JSON message"])>>
  /\ ws[ev.conn].readyState = "OPEN"
  /\ ws[ev.conn].userId \in DOMAIN userSessions
  /\ \E d \in Members(HeldIn(ev.conn)) : d # ev.conn /\ IsOpen(d)

\* ------------------------------------------------------------------ C18
\* C18: a screen-request message sent by a viewer is delivered, as a
\* screen-request carrying the viewer's id and name, to the host of the
\* viewer's room and to nobody else; if that room has no host with an open
\* transport, nothing is sent.
C18_ScreenRequestToHost ==
  [][ev'.kind = "message" =>
       \A c \in Conns :
         (ev'.conn = c /\ ~ws[c].isHost) =>
           LET data == [parses |-> TRUE, type |-> "screen-request",
                        target |-> Null, payload |-> Absent]
               host == HeldIn(c).host
           IN Message(c, data) =>
                sent' = IF host # Null /\ IsOpen(host)
                        THEN <<Envelope(host, "screen-request",
                                 [viewerId |-> ws[c].userId,
                                  viewerName |-> ws[c].username])>>
                        ELSE <<>>]_vars

ScreenSharingTypes == {"screen-sharing-started", "screen-sharing-stopped"}

\* ------------------------------------------------------------------ C19
\* C19: a screen-sharing-started or screen-sharing-stopped message sent by
\* the host is delivered, once and with the host's id, to every viewer of
\* the host's room whose transport is open and to no one else; the same
\* message sent by a viewer is delivered to no connection.  While the host is
\* in the host slot the Room Table holds for its room id, those viewers are
\* the viewer set the Room Table holds.
C19_ScreenSharingToViewers ==
  [][ev'.kind = "message" =>
       \A c \in Conns :
         ev'.conn = c =>
           \A type \in ScreenSharingTypes :
             LET data == [parses |-> TRUE, type |-> type, target |-> Null,
                          payload |-> Absent]
                 viewers == MapValues(HeldIn(c).viewers)
             IN Message(c, data) =>
                  IF ws[c].isHost
                  THEN /\ \A v \in viewers :
                            Cardinality(Delivered(sent', v, type)) =
                              (IF IsOpen(v) THEN 1 ELSE 0)
                       /\ \A i \in 1..Len(sent') :
                            /\ sent'[i].to \in viewers
                            /\ sent'[i].type = type
                            /\ sent'[i].body.hostId = ws[c].userId
                       /\ (/\ ws[c].roomId \in DOMAIN rooms
                           /\ RoomOf(ws[c].roomId).host = c)
                            => viewers = MapValues(RoomOf(ws[c].roomId).viewers)
                  ELSE sent' = <<>>]_vars

\* The host of a room with two open viewers has announced that sharing
\* started, and both viewers hold the announcement.
C19_Witness ==
  /\ ev.kind = "message" /\ ev.host
  /\ Len(sent) = Cardinality(MapValues(HeldIn(ev.conn).viewers))
  /\ \E v, w \in MapValues(HeldIn(ev.conn).viewers) :
       /\ v # w
       /\ Delivered(sent, v, "screen-sharing-started") # {}
       /\ Delivered(sent, w, "screen-sharing-started") # {}

\* ------------------------------------------------------------------ C20
\* C20: a ping from any registered connection, host or viewer, produces
\* exactly one pong, delivered to the sender, and nothing to any other
\* connection.
C20_PingPong ==
  [][ev'.kind = "message" =>
       \A c \in Conns :
         ev'.conn = c =>
           LET data == [parses |-> TRUE, type |-> "ping", target |-> Null,
                        payload |-> Absent]
           IN Message(c, data) =>
                /\ Len(sent') = 1
                /\ sent'[1].to = c
                /\ sent'[1].type = "pong"]_vars

\* A connection with an open peer in its room has sent a ping and holds the
\* only pong.
C20_Witness ==
  /\ ev.kind = "message"
  /\ Len(sent) = 1 /\ sent[1].type = "pong" /\ sent[1].to = ev.conn
  /\ ws[ev.conn].userId \in DOMAIN userSessions
  /\ \E d \in Members(HeldIn(ev.conn)) : d # ev.conn /\ IsOpen(d)

\* ------------------------------------------------------------------ C21
\* C21: the room-info reply to get-room-info names exactly the host and the
\* viewers that the Room Table holds for the sender's room id at the moment
\* of the request, the content a lookup of that room id returns, and its
\* viewerCount is the number of viewers listed.
C21_RoomInfoIsTableContent ==
  [][ev'.kind = "message" =>
       \A c \in Conns :
         ev'.conn = c =>
           LET data == [parses |-> TRUE, type |-> "get-room-info",
                        target |-> Null, payload |-> Absent]
               info == getRoomInfo(ws[c].roomId)
           IN Message(c, data) =>
                /\ Len(sent') = 1
                /\ sent'[1].to = c
                /\ sent'[1].type = "room-info"
                /\ sent'[1].body.viewerCount = Len(sent'[1].body.viewers)
                /\ IF ws[c].roomId \in DOMAIN rooms
                   THEN /\ sent'[1].body.host.id = info.host
                        /\ {sent'[1].body.viewers[i].id :
                              i \in 1..Len(sent'[1].body.viewers)} = info.viewers
                        /\ sent'[1].body.viewerCount = info.viewerCount
                   ELSE /\ sent'[1].body.host = NoOne
                        /\ sent'[1].body.viewers = <<>>]_vars

\* ------------------------------------------------------------------ C22
\* C22: one policy for unrecognized message types: every parseable inbound
\* message whose type the switch has no case for yields exactly one error
\* reply, which names that type and goes to the sender, is delivered to no
\* other connection, and changes no table, room or connection.
C22_UnknownTypeErrorReply ==
  [][ev'.kind = "message" =>
       \A c \in Conns :
         ev'.conn = c =>
           \A data \in {m \in Messages :
                          m.parses /\ m.type \notin RelayTypes \cup CaseTypes} :
             Message(c, data) =>
               /\ Len(sent') = 1
               /\ sent'[1].to = c
               /\ sent'[1].type = "error"
               /\ sent'[1].body.type = data.type
               /\ UNCHANGED <<rooms, roomObj, userSessions, ws>>]_vars

\* A connection with an open peer in its room has sent a message of a type
\* nobody uses and holds the error reply naming it.
C22_Witness ==
  /\ ev.kind = "message"
  /\ sent = <<Envelope(ev.conn, "error",
                [message |-> "Unknown message type", type |-> "chat"])>>
  /\ \E d \in Members(HeldIn(ev.conn)) : d # ev.conn /\ IsOpen(d)

\* ------------------------------------------------------------------ C23
\* C23: at each sweep of the clean-up timer every room with no member active
\* within the staleness window is removed from the Room Table, and the
\* transport of each former member of a removed room is closed, so that
\* after the sweep no registered connection refers to a removed room.
C23_SweepClosesMembers ==
  [][ev'.kind = "sweep" =>
       \A r \in DOMAIN rooms :
         /\ ~hasActiveConnections(RoomOf(r)) => r \notin DOMAIN rooms'
         /\ r \notin DOMAIN rooms' =>
              /\ \A m \in Members(RoomOf(r)) : ws'[m].readyState # "OPEN"
              /\ \A u \in DOMAIN userSessions' :
                   userSessions'[u].roomId # r]_vars

\* ------------------------------------------------------------------ C24
\* C24: the clean-up timer never removes a room that has a member whose
\* transport is open and whose last activity, its most recent inbound message
\* or its join, lies within the staleness window, however long ago that
\* member connected.  The member looked at is the one whose join or inbound
\* message was the handler that ran last before the sweep: its last activity
\* is then no time ago.
C24_ActiveRoomSurvivesSweep ==
  [][ev'.kind = "sweep" =>
       \A c \in Conns :
         (/\ ev.kind \in {"join", "message"} /\ ev.conn = c
          /\ IsOpen(c)
          /\ ws[c].roomId \in DOMAIN rooms
          /\ c \in Members(RoomOf(ws[c].roomId))) =>
           ws[c].roomId \in DOMAIN rooms']_vars

\* ------------------------------------------------------------------ C25
\* C25: a room removed by the sweep or by a disconnect is treated as already
\* gone by whichever of the two meets it next.  The disconnect of a member
\* whose room id is no longer in the Room Table removes its Session Index
\* entry and nothing else: no message, no change to the Room Table, to a room
\* the table holds, to another session or to another connection.  A sweep
\* leaves a room id that is not in the table out of it, sends nothing and
\* changes no session and no connection.
C25_GoneRoomTolerated ==
  [][/\ \A c \in Conns :
          (/\ ev'.kind = "close" /\ ev'.conn = c
           /\ ws[c].roomId \notin DOMAIN rooms) =>
            /\ userSessions' = MapDelete(userSessions, ws[c].userId)
            /\ rooms' = rooms
            /\ \A r \in DOMAIN rooms : roomObj'[rooms[r]] = roomObj[rooms[r]]
            /\ \A d \in Conns \ {c} : ws'[d] = ws[d]
            /\ sent' = <<>>
     /\ ev'.kind = "sweep" =>
          /\ \A r \in RoomIds : r \notin DOMAIN rooms => r \notin DOMAIN rooms'
          /\ \A r \in DOMAIN rooms' : roomObj'[rooms'[r]] = roomObj[rooms[r]]
          /\ sent' = <<>>
          /\ UNCHANGED <<userSessions, ws>>]_vars

\* A host has disconnected after its room was removed: it is closed, yet it
\* is still in the host slot of the room object that every connection
\* registered with its room id holds, and the table has no such room.
C25_Witness ==
  /\ ev.kind = "close" /\ ev.host /\ sent = <<>>
  /\ ev.room \notin DOMAIN rooms
  /\ ws[ev.conn].readyState = "CLOSED"
  /\ \E d \in Conns : Registered(d) /\ ws[d].roomId = ev.room /\ IsOpen(d)
  /\ \A d \in Conns :
       (Registered(d) /\ ws[d].roomId = ev.room) => HeldIn(d).host = ev.conn

\* ------------------------------------------------------------------ C26
\* C26: a connection that arrives without a room id is closed with code 4001;
\* the step adds it to no session and to no room, leaves the Room Table and
\* every room as they were, and sends nothing to any other connection.
C26_NoRoomIdRejected ==
  [][\A c \in Conns, roleParam \in RoleParams :
       (/\ IsNextConn(c)
        /\ Connection(c, Absent, UsernameParam(c), roleParam, generateUserId(c))) =>
         /\ ev'.kind = "reject" /\ ev'.conn = c /\ ev'.code = CloseRoomIdRequired
         /\ userSessions' = userSessions
         /\ \A u \in DOMAIN userSessions' : userSessions'[u].ws # c
         /\ rooms' = rooms /\ roomObj' = roomObj
         /\ \A o \in Conns :
              roomObj'[o].host # c /\ c \notin MapValues(roomObj'[o].viewers)
         /\ ~Registered(c)'
         /\ \A i \in 1..Len(sent') : sent'[i].to = c]_vars

\* A connection without a room id has just been turned away while a host and
\* a viewer are registered in a room.
C26_Witness ==
  /\ ev.kind = "reject" /\ ev.code = CloseRoomIdRequired /\ ev.room = Absent
  /\ \E r \in DOMAIN rooms :
       /\ RoomOf(r).host # Null /\ IsOpen(RoomOf(r).host)
       /\ RoomOf(r).viewers # EmptyMap
  /\ ~Registered(ev.conn)

\* ------------------------------------------------------------------ C27
\* C27: no two connections that are registered at the same time carry the
\* same connection id.
C27_IdsUnique ==
  \A c, d \in Conns :
    (Registered(c) /\ Registered(d) /\ c # d) => ws[c].userId # ws[d].userId

\* ------------------------------------------------------------------ C28
\* C28: delivery is at most once and only to live peers.  Whatever a handler
\* sends to a connection other than its own goes to a connection whose
\* transport is open, before and after the handler, so never to one whose
\* disconnect has been processed; and an inbound offer, answer or
\* ice-candidate produces at most one envelope.
C28_AtMostOnceToLivePeers ==
  [][/\ \A i \in 1..Len(sent') :
          sent'[i].to # ev'.conn =>
            /\ ws[sent'[i].to].readyState = "OPEN"
            /\ ws'[sent'[i].to].readyState = "OPEN"
     /\ ev'.kind = "message" =>
          \A c \in Conns :
            ev'.conn = c =>
              \A data \in RelayFrames :
                Message(c, data) => Len(sent') <= 1]_vars

\* A relayed frame has been delivered, once, to an open peer of a room in
\* which another member's transport is no longer open.
C28_Witness ==
  /\ ev.kind = "message" /\ Len(sent) = 1
  /\ sent[1].type \in RelayTypes /\ sent[1].to # ev.conn
  /\ IsOpen(sent[1].to)
  /\ \E d \in Members(HeldIn(ev.conn)) : ws[d].readyState = "CLOSING"

\* ------------------------------------------------------------------ C29
\* C29: a connection admitted without a role parameter is put in the viewer
\* set of its room, and for every role value supplied the welcome of an
\* admitted connection says "host" exactly when the connection is in the host
\* slot of its room and says "viewer" exactly when it is in the viewer set.
C29_WelcomeRoleMatchesSlot ==
  [][\A c \in Conns :
       (ev'.kind = "join" /\ ev'.conn = c) =>
         LET room == roomObj'[ws'[c].room]
             isViewer == c \in MapValues(room.viewers)
         IN /\ \A roomParam \in RoomParams :
                 Connection(c, roomParam, UsernameParam(c), Absent, generateUserId(c))
                   => isViewer
            /\ \A i \in Delivered(sent', c, "welcome") :
                 /\ (sent'[i].body.role = "host") <=> (room.host = c)
                 /\ (sent'[i].body.role = "viewer") <=> isViewer]_vars

\* ------------------------------------------------------------------ C30
\* C30: in the host-failover variant, when a member flagged as host
\* disconnects while other members remain in its room, afterwards exactly one
\* remaining member of the room is flagged as host, on its connection and in
\* the Session Index, and every remaining member whose transport is open
\* receives a host-changed naming that member as the new host.
C30_FailoverLeavesOneHost ==
  [][\A c \in Conns :
       (/\ ev'.kind = "close" /\ ev'.conn = c
        /\ ws[c].isHost
        /\ ws[c].roomId \in DOMAIN rooms
        /\ rooms[ws[c].roomId] \ {c} # {}) =>
         LET roomId == ws[c].roomId
             remaining == rooms[roomId] \ {c}
         IN /\ roomId \in DOMAIN rooms' /\ rooms'[roomId] = remaining
            /\ \E h \in remaining :
                 /\ \A d \in remaining : ws'[d].isHost <=> d = h
                 /\ \A u \in DOMAIN userSessions' :
                      userSessions'[u].roomId = roomId =>
                        (userSessions'[u].isHost <=> u = ws'[h].userId)
                 /\ \A d \in remaining :
                      ws'[d].readyState = "OPEN" =>
                        \E i \in Delivered(sent', d, "host-changed") :
                          sent'[i].body.newHostId = ws'[h].userId]_vars

\* ------------------------------------------------------------------ C31
\* C31: the disconnect of a connection that joined as host clears the host
\* slot of the room under its room id only if the slot holds that connection.
\* When the slot holds another connection (the room was removed by the sweep
\* and its id re-created with a new host), the disconnect leaves the room in
\* the Room Table with the new host in its slot and sends no host-left.
C31_StaleHostCloseSparesNewHost ==
  [][\A c \in Conns :
       (/\ ev'.kind = "close" /\ ev'.conn = c
        /\ ws[c].isHost
        /\ ws[c].roomId \in DOMAIN rooms
        /\ RoomOf(ws[c].roomId).host # c) =>
         /\ ws[c].roomId \in DOMAIN rooms'
         /\ roomObj'[rooms'[ws[c].roomId]].host = RoomOf(ws[c].roomId).host
         /\ \A i \in 1..Len(sent') : sent'[i].type # "host-left"]_vars

\* ------------------------------------------------------------------ C32
\* C32: whatever the message handler delivers to a connection other than the
\* sender goes to a member of the room that the Room Table holds under the
\* sender's room id; a sender whose room id is no longer in the table reaches
\* no one.
C32_RouterDeliversWithinTableRoom ==
  ev.kind = "message" =>
    \A i \in 1..Len(sent) :
      sent[i].to # ev.conn =>
        /\ ev.room \in DOMAIN rooms
        /\ sent[i].to \in Members(RoomOf(ev.room))
        /\ ev.conn \in Members(RoomOf(ev.room))

\* ------------------------------------------------------------------ C33
\* C33: nothing crosses rooms.  Every envelope a handler sends for a
\* connection with room id r goes to that connection itself or to a
\* connection whose own room id is r.
C33_NothingCrossesRooms ==
  \A i \in 1..Len(sent) :
    \/ sent[i].to = ev.conn
    \/ /\ ev.kind \in {"join", "close", "message"}
       /\ Registered(sent[i].to)
       /\ ws[sent[i].to].roomId = ev.room

\* A message has been delivered to a peer while an open connection of
\* another room is registered.
C33_Witness ==
  /\ ev.kind = "message" /\ Len(sent) >= 1 /\ sent[1].to # ev.conn
  /\ \E d \in Conns : IsOpen(d) /\ ws[d].roomId # ev.room

\* ------------------------------------------------------------------ C34
\* C34: the welcome is the first message an admitted connection receives.
\* A connection is in no room before its join, so the first envelope its own
\* join handler addresses to it is the first it ever receives.
C34_WelcomeFirst ==
  ev.kind = "join" =>
    LET mine == {i \in 1..Len(sent) : sent[i].to = ev.conn}
    IN mine # {} /\ sent[Min(mine)].type = "welcome"

\* ------------------------------------------------------------------ C35
\* C35: handling an inbound message of any type leaves the Room Table, every
\* room, the Session Index and every connection as they were; a step that
\* changes the Room Table, the members of a room the table holds or the
\* registered ids is a join, a disconnect or a sweep.
C35_MessagesChangeNoMembership ==
  [][/\ ev'.kind = "message" => UNCHANGED <<rooms, roomObj, userSessions, ws>>
     /\ (\/ rooms' # rooms
         \/ DOMAIN userSessions' # DOMAIN userSessions
         \/ \E r \in DOMAIN rooms \cap DOMAIN rooms' :
              roomObj'[rooms'[r]] # roomObj[rooms[r]])
          => ev'.kind \in {"join", "close", "sweep"}]_vars

\* An unrecognised or unparseable frame has been answered with an error while
\* a room with a host and a viewer is in the Room Table.
C35_Witness ==
  /\ ev.kind = "message" /\ Len(sent) = 1 /\ sent[1].type = "error"
  /\ \E r \in DOMAIN rooms :
       RoomOf(r).host # Null /\ RoomOf(r).viewers # EmptyMap
  /\ Cardinality(DOMAIN userSessions) >= 2

C37_DeadRoomEventuallyRemoved ==
  /\ \A r \in RoomIds :
       (r \in DOMAIN rooms /\ \A d \in Members(RoomOf(r)) : ~IsOpen(d))
         ~> (r \notin DOMAIN rooms \/ \E d \in Members(RoomOf(r)) : IsOpen(d))
  /\ [][ev'.kind = "sweep" =>
          \A r \in DOMAIN rooms :
            (\A d \in Members(RoomOf(r)) : ~IsOpen(d)) => r \notin DOMAIN rooms']_vars

\* A sweep has removed a room whose member is still registered with a fresh
\* session and a transport that is closing: no close event was delivered.
C37_Witness ==
  /\ ev.kind = "sweep"
  /\ \E d \in Conns :
       /\ ws[d].readyState = "CLOSING"
       /\ SessionFresh(d)
       /\ ws[d].roomId \notin DOMAIN rooms
====
